---- MODULE Spec2Model ----
(***************************************************************************)
(* therapydrift: the drift evaluation of one workgraph task and the        *)
(* auto-action safety policy (cooldown, hourly budget, circuit breaker,    *)
(* new-evidence requirement) with its persisted per-task automation state. *)
(*                                                                         *)
(* Conventions of the model                                                *)
(*   - a datetime is its number of seconds since the epoch (an integer);   *)
(*     None where a datetime is expected is NoneDt;                        *)
(*   - a timestamp string is a record [kind, t]: kind "iso" is the         *)
(*     isoformat of the offset-aware datetime t, kind "bad" is a string    *)
(*     datetime.fromisoformat rejects, kind "empty" is "" or None;         *)
(*   - any other string (a task id, a log message, a prefix) is the        *)
(*     sequence of its tokens, so that startswith is sequence prefix.      *)
(***************************************************************************)
EXTENDS Integers, Sequences, FiniteSets, TLC

VARIABLES
    spec,            \* the TherapydriftSpec of the subject task's block
    clock,           \* the wall clock, datetime.now(timezone.utc)
    log,             \* the subject task's log in the workgraph
    wg_tasks,        \* the other tasks of the workgraph, by id
    state,           \* .therapydrift/state.json: "tasks", by task id, as
                     \* _load_automation_state reads it
    state_size,      \* the characters state.json holds
    loaded_state,    \* task_state: the entry the last evaluation loaded
    report,          \* the report of the last evaluation
    policy,          \* the policy decision of the last evaluation
    action_created,  \* action_created of the last evaluation
    created,         \* the calls of wg.ensure_task so far: their times
    path,            \* the return path the last evaluation took
    inflight         \* the locals of the invocations that have not returned

vars == <<spec, clock, log, wg_tasks, state, state_size, loaded_state, report,
          policy, action_created, created, path, inflight>>

----------------------------------------------------------------------------
(* Time *)

\* timedelta(hours=1) in seconds
Hour == 3600
\* timedelta(hours=24) in seconds
Day == 86400
\* _parse_ts's None
NoneDt == -1

\* datetime.isoformat of an offset-aware datetime
isoformat(dt) == [kind |-> "iso", t |-> dt]
\* a string that is no ISO timestamp, "bad"
BadTs == [kind |-> "bad", t |-> 0]
\* "" or None
EmptyTs == [kind |-> "empty", t |-> 0]

\* _parse_ts: None for an empty value and for a string fromisoformat rejects
_parse_ts(value) ==
    IF value.kind = "empty" THEN NoneDt
    ELSE IF value.kind = "iso" THEN value.t
    ELSE NoneDt

----------------------------------------------------------------------------
(* Sequence helpers *)

RECURSIVE SeqMax(_)
\* max() of a non-empty list of datetimes
SeqMax(s) ==
    IF Len(s) = 1 THEN s[1]
    ELSE LET m == SeqMax(Tail(s)) IN IF s[1] >= m THEN s[1] ELSE m

\* [_parse_ts(x) for x in s]
ParseAll(s) == [i \in 1..Len(s) |-> _parse_ts(s[i])]

\* set(s)
ToSet(s) == {s[i] : i \in 1..Len(s)}

\* str.startswith
StartsWith(s, p) == Len(p) <= Len(s) /\ SubSeq(s, 1, Len(p)) = p

\* any(s.startswith(p) for p in prefixes)
StartsWithAny(s, prefixes) ==
    \E i \in 1..Len(prefixes) : StartsWith(s, prefixes[i])

----------------------------------------------------------------------------
(* specs.py *)

\* raw.get(key, default): raw is [keys: the keys present, vals: their values]
RawGet(raw, key, default) ==
    IF key \in raw.keys THEN raw.vals[key] ELSE default

\* raw.get(key) or default, for a list
RawGetOr(raw, key, default) ==
    IF key \in raw.keys /\ raw.vals[key] # <<>> THEN raw.vals[key] ELSE default

\* cooldown_seconds when the block does not set it
DefaultCooldown == 1800

DefaultFollowupPrefixes == << <<"drift-">>, <<"speedrift-pit-">> >>
DefaultIgnorePrefixes == << <<"Therapydrift:">> >>

\* TherapydriftSpec.from_raw
from_raw(raw) ==
    LET min_signal_count == RawGet(raw, "min_signal_count", 2)
        cooldown_seconds == RawGet(raw, "cooldown_seconds", DefaultCooldown)
        max_auto_actions_per_hour == RawGet(raw, "max_auto_actions_per_hour", 2)
        min_new_signals == RawGet(raw, "min_new_signals", 1)
        circuit_breaker_after == RawGet(raw, "circuit_breaker_after", 6)
    IN  [schema |-> RawGet(raw, "schema", 1),
         min_signal_count |->
            IF min_signal_count < 1 THEN 1 ELSE min_signal_count,
         followup_prefixes |->
            RawGetOr(raw, "followup_prefixes", DefaultFollowupPrefixes),
         require_recovery_plan |-> RawGet(raw, "require_recovery_plan", TRUE),
         ignore_signal_prefixes |->
            RawGetOr(raw, "ignore_signal_prefixes", DefaultIgnorePrefixes),
         cooldown_seconds |->
            IF cooldown_seconds < 0 THEN 0 ELSE cooldown_seconds,
         max_auto_actions_per_hour |->
            IF max_auto_actions_per_hour < 0 THEN 0
            ELSE max_auto_actions_per_hour,
         min_new_signals |-> IF min_new_signals < 0 THEN 0 ELSE min_new_signals,
         circuit_breaker_after |->
            IF circuit_breaker_after < 1 THEN 1 ELSE circuit_breaker_after]

----------------------------------------------------------------------------
(* cli.py: the auto-action policy *)

\* faulty variant: unsupported_schema taken for an actionable kind
actionable_kinds_WithSchema ==
    {"repeated_drift_signals", "unresolved_drift_followups",
     "missing_recovery_plan", "unsupported_schema"}

actionable_kinds ==
    {"repeated_drift_signals", "unresolved_drift_followups",
     "missing_recovery_plan"}

\* faulty variant: the hourly budget rules ahead of the circuit breaker
PolicyDecision_BudgetFirst(actionable, breaker_open, budget, recent, cooling, evidence) ==
    IF ~actionable
    THEN [allow |-> FALSE, reason |-> "no_actionable_findings"]
    ELSE IF budget = 0
    THEN [allow |-> FALSE, reason |-> "hourly_budget_disabled"]
    ELSE IF recent >= budget
    THEN [allow |-> FALSE, reason |-> "hourly_budget_exhausted"]
    ELSE IF breaker_open
    THEN [allow |-> FALSE, reason |-> "circuit_breaker_open"]
    ELSE IF cooling
    THEN [allow |-> FALSE, reason |-> "cooldown_active"]
    ELSE IF ~evidence
    THEN [allow |-> FALSE, reason |-> "no_new_evidence"]
    ELSE [allow |-> TRUE, reason |-> "allowed"]

\* the lines that decide allow and reason, given has_actionable_findings,
\* circuit_breaker_open, spec.max_auto_actions_per_hour, len(recent_actions),
\* cooldown_active and has_new_evidence
PolicyDecision(actionable, breaker_open, budget, recent, cooling, evidence) ==
    IF ~actionable
    THEN [allow |-> FALSE, reason |-> "no_actionable_findings"]
    ELSE IF breaker_open
    THEN [allow |-> FALSE, reason |-> "circuit_breaker_open"]
    ELSE IF budget = 0
    THEN [allow |-> FALSE, reason |-> "hourly_budget_disabled"]
    ELSE IF recent >= budget
    THEN [allow |-> FALSE, reason |-> "hourly_budget_exhausted"]
    ELSE IF cooling
    THEN [allow |-> FALSE, reason |-> "cooldown_active"]
    ELSE IF ~evidence
    THEN [allow |-> FALSE, reason |-> "no_new_evidence"]
    ELSE [allow |-> TRUE, reason |-> "allowed"]

\* faulty variant: an action exactly cooldown_seconds old still cools down
CooldownActive_Inclusive(last_action_dt, cooldown_seconds, now) ==
    IF last_action_dt # NoneDt /\ cooldown_seconds > 0
    THEN (now - last_action_dt) <= cooldown_seconds
    ELSE FALSE

\* cooldown_active of _evaluate_auto_action_policy
CooldownActive(last_action_dt, cooldown_seconds, now) ==
    IF last_action_dt # NoneDt /\ cooldown_seconds > 0
    THEN (now - last_action_dt) < cooldown_seconds
    ELSE FALSE

\* faulty variant: an action exactly one hour old is no longer recent
RecentActions_Strict(action_dts, now) ==
    LET one_hour_ago == now - Hour
        IsRecent(dt) == dt > one_hour_ago
    IN  SelectSeq(action_dts, IsRecent)

\* recent_actions of _evaluate_auto_action_policy
RecentActions(action_dts, now) ==
    LET one_hour_ago == now - Hour
        IsRecent(dt) == dt >= one_hour_ago
    IN  SelectSeq(action_dts, IsRecent)

\* faulty variant: the breaker opens one action late
CircuitBreakerOpen_Late(total_actions, circuit_breaker_after) ==
    total_actions > circuit_breaker_after

\* circuit_breaker_open of _evaluate_auto_action_policy
CircuitBreakerOpen(total_actions, circuit_breaker_after) ==
    total_actions >= circuit_breaker_after

\* faulty variant: the ids compared as lists, order and all
OpenFollowupsChanged_AsLists(prev_ids, cur_ids) == cur_ids # prev_ids

\* open_followups_changed of _evaluate_auto_action_policy: the stored and the
\* current ids compared as sets
OpenFollowupsChanged(prev_ids, cur_ids) ==
    LET prev_followups == ToSet(prev_ids)
        cur_followups == ToSet(cur_ids)
    IN  cur_followups # prev_followups

\* faulty variant: new signals and a changed follow-up set both required
HasNewEvidence_Both(new_signal_count, min_new_signals, open_followups_changed) ==
    new_signal_count >= min_new_signals /\ open_followups_changed

\* has_new_evidence of _evaluate_auto_action_policy
HasNewEvidence(new_signal_count, min_new_signals, open_followups_changed) ==
    new_signal_count >= min_new_signals \/ open_followups_changed

_evaluate_auto_action_policy(sp, findings, telemetry, task_state, now) ==
    LET kinds == {findings[i].kind : i \in 1..Len(findings)}
        has_actionable_findings == (kinds \cap actionable_kinds) # {}
        raw_actions == task_state.auto_action_timestamps
        IsDt(dt) == dt # NoneDt
        action_dts == SelectSeq(ParseAll(raw_actions), IsDt)
        recent_actions == RecentActions(action_dts, now)
        last_action_dt ==
            IF action_dts # <<>> THEN SeqMax(action_dts) ELSE NoneDt
        total_actions == task_state.auto_action_total
        circuit_breaker_open ==
            CircuitBreakerOpen(total_actions, sp.circuit_breaker_after)
        cooldown_active ==
            CooldownActive(last_action_dt, sp.cooldown_seconds, now)
        open_followups_changed ==
            OpenFollowupsChanged(task_state.open_followup_ids,
                                 telemetry.open_followup_ids)
        new_signal_count == telemetry.new_signal_count
        has_new_evidence ==
            HasNewEvidence(new_signal_count, sp.min_new_signals,
                           open_followups_changed)
        d == PolicyDecision(has_actionable_findings, circuit_breaker_open,
                            sp.max_auto_actions_per_hour, Len(recent_actions),
                            cooldown_active, has_new_evidence)
    IN  [allow_auto_action |-> d.allow,
         reason |-> d.reason,
         has_actionable_findings |-> has_actionable_findings,
         new_signal_count |-> new_signal_count,
         open_followups_changed |-> open_followups_changed,
         recent_action_count_1h |-> Len(recent_actions),
         cooldown_active |-> cooldown_active,
         circuit_breaker_open |-> circuit_breaker_open]

----------------------------------------------------------------------------
(* The strings of the model *)

\* args.task, the subject task
SubjectId == <<"t1">>
\* a task of the graph that no evaluation is run on
BystanderId == <<"t0">>
\* a follow-up task some other drift tool opens for the subject task
ScopeId == <<"drift-", "scope-", "t1">>

\* f"drift-therapy-{task_id}"
TherapyTaskId(task_id) == <<"drift-", "therapy-">> \o task_id

\* a task of the graph whose id starts with no default follow-up prefix
MiscId == <<"misc-", "t1">>

\* the n-th of many follow-up tasks, "drift-f-01", "drift-f-02", ...: the number
\* has two digits, so that the order of the strings is the order of the numbers
Follower(n) == <<"drift-", "f-", n>>

\* open_followups[:50]
FollowupCap == 50

\* the task ids of the model, in the order sorted() gives their strings
IdOrder ==
    [n \in 1..(FollowupCap + 1) |-> Follower(n)]
        \o <<ScopeId, TherapyTaskId(SubjectId), MiscId, SubjectId>>

\* sorted(set(ids)) for ids among IdOrder
SortedIds(ids) ==
    LET In(x) == x \in ids IN SelectSeq(IdOrder, In)

----------------------------------------------------------------------------
(* drift.py *)

_DRIFT_PREFIXES ==
    << <<"Coredrift:">>, <<"Speedrift:">>, <<"Specdrift:">>, <<"Datadrift:">>,
       <<"Depsdrift:">>, <<"Uxdrift:">>, <<"Therapydrift:">> >>

\* s[:n]
Take(s, n) == SubSeq(s, 1, IF Len(s) < n THEN Len(s) ELSE n)

\* the entries of the log that are drift signals: a dict whose message starts
\* with a drift prefix and with no ignore prefix
IsDriftSignal(e, sp) ==
    /\ e.is_dict
    /\ StartsWithAny(e.message, _DRIFT_PREFIXES)
    /\ ~StartsWithAny(e.message, sp.ignore_signal_prefixes)

\* faulty variant: every message with an ignore prefix is counted, a drift
\* message or not
IsIgnoredSelfSignal_AnyMessage(e, sp) ==
    /\ e.is_dict
    /\ StartsWithAny(e.message, sp.ignore_signal_prefixes)

\* the entries counted in ignored_self_signals
IsIgnoredSelfSignal(e, sp) ==
    /\ e.is_dict
    /\ StartsWithAny(e.message, _DRIFT_PREFIXES)
    /\ StartsWithAny(e.message, sp.ignore_signal_prefixes)

\* faulty variant: the tasks are not asked whether task_id blocks them
OpenFollowups_AnyBlocker(task_id, sp, tasks) ==
    SortedIds({tasks[k].id : k \in
                {k \in DOMAIN tasks :
                    /\ tasks[k].id # <<>>
                    /\ tasks[k].id # task_id
                    /\ tasks[k].status \in {"open", "in-progress"}
                    /\ StartsWithAny(tasks[k].id, sp.followup_prefixes)}})

\* the open follow-ups of task_id among tasks (a dict of tasks, each with its
\* id, status and blocked_by)
OpenFollowups(task_id, sp, tasks) ==
    SortedIds({tasks[k].id : k \in
                {k \in DOMAIN tasks :
                    /\ tasks[k].id # <<>>
                    /\ tasks[k].id # task_id
                    /\ tasks[k].status \in {"open", "in-progress"}
                    /\ task_id \in ToSet(tasks[k].blocked_by)
                    /\ StartsWithAny(tasks[k].id, sp.followup_prefixes)}})

\* latest_signal_dt: the greatest parseable timestamp of the signals
LatestSignalDt(drift_signals) ==
    LET IsDt(dt) == dt # NoneDt
        stamps == [i \in 1..Len(drift_signals) |-> drift_signals[i].timestamp]
        dts == SelectSeq(ParseAll(stamps), IsDt)
    IN  IF dts = <<>> THEN NoneDt ELSE SeqMax(dts)

\* faulty variant: a signal as old as the previous latest one counts as new
NewSignalCount_Inclusive(drift_signals, previous_latest_signal_ts) ==
    LET previous_latest_dt == _parse_ts(previous_latest_signal_ts)
        IsNew(s) == /\ _parse_ts(s.timestamp) # NoneDt
                    /\ _parse_ts(s.timestamp) >= previous_latest_dt
    IN  IF previous_latest_dt = NoneDt THEN Len(drift_signals)
        ELSE Len(SelectSeq(drift_signals, IsNew))

\* new_signal_count
NewSignalCount(drift_signals, previous_latest_signal_ts) ==
    LET previous_latest_dt == _parse_ts(previous_latest_signal_ts)
        IsNew(s) == /\ _parse_ts(s.timestamp) # NoneDt
                    /\ _parse_ts(s.timestamp) > previous_latest_dt
    IN  IF previous_latest_dt = NoneDt THEN Len(drift_signals)
        ELSE Len(SelectSeq(drift_signals, IsNew))

\* faulty variant: the status of the recovery task is not looked at
TherapyExists_AnyStatus(task_id, tasks) ==
    TherapyTaskId(task_id) \in DOMAIN tasks

\* therapy_exists
TherapyExists(task_id, tasks) ==
    /\ TherapyTaskId(task_id) \in DOMAIN tasks
    /\ tasks[TherapyTaskId(task_id)].status \in {"open", "in-progress", "done"}

Finding(kind, severity) == [kind |-> kind, severity |-> severity]

\* faulty variant: min_signal_count signals are not yet enough
Findings_AboveThreshold(sp, drift_signals, open_followups, therapy_exists) ==
    LET f1 == IF sp.schema # 1
              THEN <<Finding("unsupported_schema", "warn")>> ELSE <<>>
        f2 == IF Len(drift_signals) > sp.min_signal_count
              THEN <<Finding("repeated_drift_signals", "warn")>> ELSE <<>>
        f3 == IF open_followups # <<>>
              THEN <<Finding("unresolved_drift_followups", "warn")>> ELSE <<>>
        first == f1 \o f2 \o f3
        f4 == IF sp.require_recovery_plan /\ first # <<>> /\ ~therapy_exists
              THEN <<Finding("missing_recovery_plan", "warn")>> ELSE <<>>
    IN  first \o f4

\* the findings, in the order the rules append them
Findings(sp, drift_signals, open_followups, therapy_exists) ==
    LET f1 == IF sp.schema # 1
              THEN <<Finding("unsupported_schema", "warn")>> ELSE <<>>
        f2 == IF Len(drift_signals) >= sp.min_signal_count
              THEN <<Finding("repeated_drift_signals", "warn")>> ELSE <<>>
        f3 == IF open_followups # <<>>
              THEN <<Finding("unresolved_drift_followups", "warn")>> ELSE <<>>
        first == f1 \o f2 \o f3
        f4 == IF sp.require_recovery_plan /\ first # <<>> /\ ~therapy_exists
              THEN <<Finding("missing_recovery_plan", "warn")>> ELSE <<>>
    IN  first \o f4

\* faulty variant: findings of severity warn leave the score green
Score_ErrorOnly(findings) ==
    IF \E i \in 1..Len(findings) : findings[i].severity = "error" THEN "red"
    ELSE "green"

\* score
Score(findings) ==
    IF \E i \in 1..Len(findings) : findings[i].severity = "error" THEN "red"
    ELSE IF \E i \in 1..Len(findings) : findings[i].severity = "warn"
    THEN "yellow"
    ELSE "green"

\* the action recommended for a finding of that kind; <<>> when there is none
RecommendedAction(kind, task_id) ==
    IF kind = "repeated_drift_signals"
    THEN <<"Run a self-healing cycle: tighten touch scope and split hardening work">>
    ELSE IF kind = "unresolved_drift_followups"
    THEN <<"Resolve or re-scope open drift follow-up tasks before adding new scope">>
    ELSE IF kind = "missing_recovery_plan"
    THEN <<"Create and complete ">> \o TherapyTaskId(task_id)
            \o <<" to consolidate remediation">>
    ELSE IF kind = "unsupported_schema"
    THEN <<"Set therapydrift schema = 1">>
    ELSE <<>>

Recommendation(action) == [priority |-> "high", action |-> action]

\* one recommendation per finding, in the findings' order, each action once
RECURSIVE Recommendations(_, _, _)
Recommendations(findings, task_id, seen_actions) ==
    IF findings = <<>> THEN <<>>
    ELSE LET action == RecommendedAction(Head(findings).kind, task_id)
         IN  IF action = <<>> \/ action \in seen_actions
             THEN Recommendations(Tail(findings), task_id, seen_actions)
             ELSE <<Recommendation(action)>>
                     \o Recommendations(Tail(findings), task_id,
                                        seen_actions \cup {action})

compute_therapy_drift(task_id, sp, task, tasks, previous_latest_signal_ts) ==
    LET logs == task.log
        Signal(e) == IsDriftSignal(e, sp)
        Ignored(e) == IsIgnoredSelfSignal(e, sp)
        signal_entries == SelectSeq(logs, Signal)
        drift_signals ==
            [i \in 1..Len(signal_entries) |->
                [message |-> signal_entries[i].message,
                 timestamp |-> signal_entries[i].timestamp]]
        ignored_self_signals == Len(SelectSeq(logs, Ignored))
        open_followups == OpenFollowups(task_id, sp, tasks)
        latest_signal_dt == LatestSignalDt(drift_signals)
        new_signal_count ==
            NewSignalCount(drift_signals, previous_latest_signal_ts)
        therapy_exists == TherapyExists(task_id, tasks)
        findings == Findings(sp, drift_signals, open_followups, therapy_exists)
    IN  [task_id |-> task_id,
         score |-> Score(findings),
         telemetry |->
            [drift_signal_count |-> Len(drift_signals),
             new_signal_count |-> new_signal_count,
             ignored_self_signals |-> ignored_self_signals,
             open_drift_followups |-> Len(open_followups),
             open_followup_ids |-> Take(open_followups, FollowupCap),
             latest_signal_ts |->
                IF latest_signal_dt # NoneDt THEN isoformat(latest_signal_dt)
                ELSE EmptyTs,
             therapy_task_exists |-> therapy_exists],
         findings |-> findings,
         recommendations |-> Recommendations(findings, task_id, {})]

----------------------------------------------------------------------------
(* cli.py: the persisted automation state *)

\* the entry of a task that state.json does not hold: every .get() of it
\* gives the default
EmptyTaskState ==
    [last_check_ts |-> EmptyTs,
     latest_signal_ts |-> EmptyTs,
     drift_signal_count |-> 0,
     open_followup_ids |-> <<>>,
     auto_action_timestamps |-> <<>>,
     auto_action_total |-> 0,
     circuit_breaker_open |-> FALSE]

\* faulty variant: a timestamp exactly 24 hours old is dropped
Kept_Strict(raw_actions, now) ==
    LET day_ago == now - Day
        Keep(ts) == _parse_ts(ts) # NoneDt /\ _parse_ts(ts) > day_ago
    IN  SelectSeq(raw_actions, Keep)

\* kept: the stored action timestamps that parse and are at most 24 hours old
Kept(raw_actions, now) ==
    LET day_ago == now - Day
        Keep(ts) == _parse_ts(ts) # NoneDt /\ _parse_ts(ts) >= day_ago
    IN  SelectSeq(raw_actions, Keep)

\* faulty variant: every evaluation is counted as an action
NextActionTotal_EveryCheck(total, created_now) == total + 1

\* cur["auto_action_total"]
NextActionTotal(total, created_now) ==
    IF created_now THEN total + 1 ELSE total

\* faulty variant: the new action's timestamp is not stored
NextActionStamps_Forgotten(kept, created_now, now) == kept

\* cur["auto_action_timestamps"]: kept, and now's timestamp after an action
NextActionStamps(kept, created_now, now) ==
    IF created_now THEN Append(kept, isoformat(now)) ELSE kept

\* _update_automation_state: the new value of state["tasks"]
\* a variant that leaves the stored flag as it was
RecordedBreaker_Kept(cur, pol) == cur.circuit_breaker_open

\* the flag _update_automation_state records: the policy's, as decided
RecordedBreaker(cur, pol) == pol.circuit_breaker_open

_update_automation_state(st, task_id, telemetry, pol, created_now, now) ==
    LET cur == st[task_id]
        kept == Kept(cur.auto_action_timestamps, now)
        new ==
            [last_check_ts |-> isoformat(now),
             latest_signal_ts |->
                IF telemetry.latest_signal_ts.kind # "empty"
                THEN telemetry.latest_signal_ts ELSE cur.latest_signal_ts,
             drift_signal_count |-> telemetry.drift_signal_count,
             open_followup_ids |-> telemetry.open_followup_ids,
             auto_action_timestamps |->
                NextActionStamps(kept, created_now, now),
             auto_action_total |->
                NextActionTotal(cur.auto_action_total, created_now),
             circuit_breaker_open |-> RecordedBreaker(cur, pol)]
    IN  [st EXCEPT ![task_id] = new]

\* the characters of a prefix of a task id
Chars(piece) ==
    CASE piece = "drift-" -> 6
      [] piece = "scope-" -> 6
      [] piece = "therapy-" -> 8
      [] piece = "misc-" -> 5
      [] piece = "f-" -> 2

\* len(task_id): the prefixes and the last piece, which is "t0", "t1" or
\* the two digits of a Follower
RECURSIVE IdLength(_)
IdLength(id) ==
    IF id = <<>> THEN 0
    ELSE IF Len(id) = 1 THEN 2
    ELSE Chars(Head(id)) + IdLength(Tail(id))

\* len(ts) of a stored timestamp: isoformat() of a datetime with an offset
\* and whole seconds has 25 characters; the string that is no timestamp
\* is "bad"
TsLength(ts) ==
    CASE ts.kind = "iso" -> 25
      [] ts.kind = "empty" -> 0
      [] OTHER -> 3

\* len(str(n))
RECURSIVE Digits(_)
Digits(n) == IF n < 10 THEN 1 ELSE 1 + Digits(n \div 10)

\* the characters json.dumps(indent=2) gives a list of strings whose
\* lengths are sizes: "[]", or a line for each string between "[" and "]"
RECURSIVE LinesLength(_)
LinesLength(sizes) ==
    IF sizes = <<>> THEN 0
    ELSE 8 + 2 + Head(sizes) + (IF Len(sizes) > 1 THEN 2 ELSE 1)
            + LinesLength(Tail(sizes))

ListLength(sizes) ==
    IF sizes = <<>> THEN 2 ELSE 2 + LinesLength(sizes) + 6 + 1

\* the characters of a task's entry in state.json: the line of its id, a
\* line for each key that _update_automation_state has set, and the closing
\* line.  latest_signal_ts is a key only once a timestamp was observed.
EntryLength(id, cur) ==
    LET Line(key, value) == 6 + 2 + key + 2 + value
        lines ==
            <<Line(13, 2 + TsLength(cur.last_check_ts))>>
            \o (IF cur.latest_signal_ts.kind # "empty"
                THEN <<Line(16, 2 + TsLength(cur.latest_signal_ts))>>
                ELSE <<>>)
            \o <<Line(18, Digits(cur.drift_signal_count)),
                 Line(17, ListLength([i \in DOMAIN cur.open_followup_ids |->
                                        IdLength(cur.open_followup_ids[i])])),
                 Line(17, Digits(cur.auto_action_total)),
                 Line(22, ListLength([i \in DOMAIN cur.auto_action_timestamps
                                        |-> TsLength(
                                               cur.auto_action_timestamps[i])])),
                 Line(20, IF cur.circuit_breaker_open THEN 4 ELSE 5)>>
        Sum[i \in 0..Len(lines)] ==
            IF i = 0 THEN 0 ELSE lines[i] + 2 + Sum[i - 1]
    IN  4 + 2 + IdLength(id) + 4 + (Sum[Len(lines)] - 1) + 4 + 1

\* len(json.dumps(state, indent=2, sort_keys=False) + "\n"): the text
\* _save_automation_state writes for the dict st
RECURSIVE EntriesLength(_, _)
EntriesLength(st, ids) ==
    IF ids = {} THEN 0
    ELSE LET id == CHOOSE t \in ids : TRUE
         IN  EntryLength(id, st[id]) + (IF ids = {id} THEN 1 ELSE 2)
                + EntriesLength(st, ids \ {id})

TextLength(st) ==
    LET ids == {t \in DOMAIN st : st[t] # EmptyTaskState}
    IN  IF ids = {} THEN 18
        ELSE 2 + 13 + EntriesLength(st, ids) + 4 + 2

\* faulty variant: the policy's decision is not looked at
_maybe_create_followups_Unguarded(rep, pol) ==
    IF rep.findings = <<>> THEN FALSE ELSE TRUE

\* _maybe_create_followups: whether wg.ensure_task is called
_maybe_create_followups(rep, pol) ==
    IF ~pol.allow_auto_action THEN FALSE
    ELSE IF rep.findings = <<>> THEN FALSE
    ELSE TRUE

\* the finding kinds the program produces, as sorted() orders them
KindOrder ==
    <<"invalid_therapydrift_spec", "missing_recovery_plan",
      "repeated_drift_signals", "unresolved_drift_followups",
      "unsupported_schema">>

\* sorted({kind of each finding}), for findings of the kinds the program
\* produces
SortedKinds(findings) ==
    LET kinds == {findings[i].kind : i \in DOMAIN findings}
        Found(k) == k \in kinds
    IN  SelectSeq(KindOrder, Found)

\* ", ".join(words)
Joined(words) ==
    [i \in 1..(2 * Len(words) - 1) |->
        IF i % 2 = 1 THEN words[(i + 1) \div 2] ELSE ", "]

\* _maybe_write_log: the message handed to wg.wg_log
SummaryMessage(rep) ==
    IF rep.findings = <<>> THEN <<"Therapydrift:", " OK (no findings)">>
    ELSE <<"Therapydrift:", " ", rep.score, " (">>
            \o Joined(SortedKinds(rep.findings)) \o <<")">>
            \o (IF rep.recommendations # <<>>
                   /\ rep.recommendations[1].action # <<>>
                THEN <<" | next: ">> \o rep.recommendations[1].action
                ELSE <<>>)

----------------------------------------------------------------------------
(* workgraph.py: the task store *)

\* wg.wg_log: the task's log with one entry more, stamped with the clock
wg_log(lg, msg, now) ==
    Append(lg, [is_dict |-> TRUE, message |-> msg, timestamp |-> isoformat(now)])

\* wg.ensure_task: the task is created open when the graph has none of that id
ensure_task(tasks, task_id, blocked_by) ==
    IF task_id \in DOMAIN tasks THEN tasks
    ELSE [t \in DOMAIN tasks \cup {task_id} |->
            IF t = task_id
            THEN [id |-> task_id, status |-> "open", blocked_by |-> blocked_by]
            ELSE tasks[t]]

\* load_tasks: every task of the graph by id, the subject task among them
load_tasks(others) ==
    [t \in DOMAIN others \cup {SubjectId} |->
        IF t = SubjectId
        THEN [id |-> SubjectId, status |-> "in-progress", blocked_by |-> <<>>]
        ELSE others[t]]

----------------------------------------------------------------------------
(* cli.py: cmd_wg_check *)

NoTelemetry ==
    [drift_signal_count |-> 0, new_signal_count |-> 0,
     ignored_self_signals |-> 0, open_drift_followups |-> 0,
     open_followup_ids |-> <<>>, latest_signal_ts |-> EmptyTs,
     therapy_task_exists |-> FALSE]

\* no report yet
NoReport ==
    [task_id |-> SubjectId, score |-> "none", telemetry |-> NoTelemetry,
     findings |-> <<>>, recommendations |-> <<>>]

\* the report of a task whose description has no therapydrift block
NoBlockReport ==
    [task_id |-> SubjectId, score |-> "green", telemetry |-> NoTelemetry,
     findings |-> <<>>, recommendations |-> <<>>]

\* the report of a task whose therapydrift block does not parse
ParseErrorReport ==
    [task_id |-> SubjectId, score |-> "yellow", telemetry |-> NoTelemetry,
     findings |-> <<Finding("invalid_therapydrift_spec", "warn")>>,
     recommendations |->
        <<Recommendation(
             <<"Fix the therapydrift TOML block so it parses">>)>>]

\* no policy decision: the policy was not evaluated
NoPolicy ==
    [allow_auto_action |-> FALSE, reason |-> "not_evaluated",
     has_actionable_findings |-> FALSE, new_signal_count |-> 0,
     open_followups_changed |-> FALSE, recent_action_count_1h |-> 0,
     cooldown_active |-> FALSE, circuit_breaker_open |-> FALSE]

\* the log may grow to MaxLog entries
MaxLog == 1

StateIds == {SubjectId, BystanderId}

\* state.json missing, empty or unreadable: _load_automation_state gives
\* {"tasks": {}}
NoState == [t \in StateIds |-> EmptyTaskState]

\* the invocations that may run at the same time
Procs == {"a", "b"}

\* the locals of an invocation that has not started: nothing read yet.  pc
\* names the step the invocation takes next, runs counts the invocations the
\* process has started.
NotStarted ==
    [pc |-> "idle", write_log |-> FALSE, create_followups |-> FALSE,
     task |-> [log |-> <<>>], tasks |-> <<>>, state |-> NoState,
     task_state |-> EmptyTaskState, report |-> NoReport, policy |-> NoPolicy,
     now |-> 0, acted |-> FALSE, runs |-> 0]

\* no invocation is under way
NoInflight == [p \in Procs |-> NotStarted]

\* the outputs of an invocation are gone once the process has ended and
\* something else happens
NoOutputs ==
    /\ loaded_state' = EmptyTaskState
    /\ report' = NoReport
    /\ policy' = NoPolicy
    /\ action_created' = FALSE
    /\ path' = "idle"

\* invocation p goes on with these locals
GoOn(p, locals) ==
    /\ inflight' = [inflight EXCEPT ![p] = locals]
    /\ NoOutputs

\* invocation p prints its report and returns
Return(p, runs, rep, pol, acted, task_state, return_path) ==
    /\ report' = rep
    /\ policy' = pol
    /\ action_created' = acted
    /\ loaded_state' = task_state
    /\ path' = return_path
    /\ inflight' = [inflight EXCEPT ![p] = [NotStarted EXCEPT !.runs = runs]]

\* the log has room for one entry more, besides the summaries that the
\* invocations under way are still to write
LogRoom ==
    Len(log) + Cardinality({p \in Procs : inflight[p].write_log}) < MaxLog

\* l.253-275: _load_task reads the subject task, its log with it; the block
\* of its description is absent ("none"), does not parse ("invalid") or
\* gives the spec ("ok").  Without a block the invocation returns here.
LoadTask(p, block, write_log, create_followups, runs) ==
    /\ inflight[p].pc = "idle"
    /\ (write_log /\ block # "none") => LogRoom
    /\ IF block = "none"
       THEN Return(p, runs, NoBlockReport, NoPolicy, FALSE, EmptyTaskState,
                   "no_block")
       ELSE GoOn(p, [NotStarted EXCEPT
                        !.pc = IF block = "invalid" THEN "parse_error"
                               ELSE "load_tasks",
                        !.write_log = write_log,
                        !.create_followups = create_followups,
                        !.task = [log |-> log],
                        !.runs = runs])
    /\ UNCHANGED <<spec, clock, log, wg_tasks, state, state_size, created>>

\* faulty variant: the automation state is updated on the parse-error path
StateAfterParseError_Updating(st, now) ==
    _update_automation_state(st, SubjectId, NoTelemetry, NoPolicy, FALSE, now)

\* state.json after the except branch of the spec's parse: not touched
StateAfterParseError(st, now) == st

\* l.276-307: the except branch of the spec's parse: the summary is logged
\* under --write-log, and the invocation returns
ParseError(p) ==
    /\ inflight[p].pc = "parse_error"
    /\ log' = IF inflight[p].write_log
              THEN wg_log(log, SummaryMessage(ParseErrorReport), clock)
              ELSE log
    /\ state' = StateAfterParseError(state, clock)
    /\ Return(p, inflight[p].runs, ParseErrorReport, NoPolicy, FALSE,
              EmptyTaskState, "parse_error")
    /\ UNCHANGED <<spec, clock, wg_tasks, state_size, created>>

\* l.309: load_tasks reads the graph
LoadTasks(p) ==
    /\ inflight[p].pc = "load_tasks"
    /\ GoOn(p, [inflight[p] EXCEPT !.pc = "load_state",
                                   !.tasks = load_tasks(wg_tasks)])
    /\ UNCHANGED <<spec, clock, log, wg_tasks, state, state_size, created>>

\* l.310-321: _load_automation_state reads state.json; the report is
\* computed from the task, the tasks and the state that were read
LoadState(p) ==
    /\ inflight[p].pc = "load_state"
    /\ GoOn(p, [inflight[p] EXCEPT
                   !.pc = "decide",
                   !.state = state,
                   !.task_state = state[SubjectId],
                   !.report = compute_therapy_drift(
                                 SubjectId, spec, inflight[p].task,
                                 inflight[p].tasks,
                                 state[SubjectId].latest_signal_ts),
                   !.task = [log |-> <<>>],
                   !.tasks = <<>>])
    /\ UNCHANGED <<spec, clock, log, wg_tasks, state, state_size, created>>

\* the step after the summary is logged: wg.ensure_task when
\* --create-followups is given and _maybe_create_followups gets that far,
\* the save otherwise
AfterLog(create_followups, rep, pol) ==
    IF create_followups /\ _maybe_create_followups(rep, pol)
    THEN "ensure_task" ELSE "save"

\* l.323-335: the clock is read and the policy evaluated
Decide(p) ==
    /\ inflight[p].pc = "decide"
    /\ \E pol \in {_evaluate_auto_action_policy(
                      spec, inflight[p].report.findings,
                      inflight[p].report.telemetry, inflight[p].task_state,
                      clock)} :
          GoOn(p, [inflight[p] EXCEPT
                      !.pc = IF inflight[p].write_log THEN "write_log"
                             ELSE AfterLog(inflight[p].create_followups,
                                           inflight[p].report, pol),
                      !.now = clock,
                      !.policy = pol])
    /\ UNCHANGED <<spec, clock, log, wg_tasks, state, state_size, created>>

\* l.337-338: _maybe_write_log under --write-log
WriteLog(p) ==
    /\ inflight[p].pc = "write_log"
    /\ log' = wg_log(log, SummaryMessage(inflight[p].report), clock)
    /\ GoOn(p, [inflight[p] EXCEPT
                   !.pc = AfterLog(inflight[p].create_followups,
                                   inflight[p].report, inflight[p].policy),
                   !.write_log = FALSE])
    /\ UNCHANGED <<spec, clock, wg_tasks, state, state_size, created>>

\* l.339-341 with 226-233: wg.ensure_task for the recovery task; created
\* keeps the now of the invocation, the time the action is stamped with
EnsureTask(p) ==
    /\ inflight[p].pc = "ensure_task"
    /\ wg_tasks' = ensure_task(wg_tasks, TherapyTaskId(SubjectId),
                               <<SubjectId>>)
    /\ created' = Append(created, inflight[p].now)
    /\ GoOn(p, [inflight[p] EXCEPT !.pc = "save", !.acted = TRUE])
    /\ UNCHANGED <<spec, clock, log, state, state_size>>

\* the state dict that is updated and saved: the one the invocation loaded
SavedFrom(snapshot, current) == snapshot

\* l.342-350: _update_automation_state on the loaded dict, then
\* _save_automation_state: write_text opens state.json, which empties it
SaveOpen(p) ==
    /\ inflight[p].pc = "save"
    /\ state' = NoState
    /\ state_size' = 0
    /\ GoOn(p, [inflight[p] EXCEPT
                   !.pc = "write",
                   !.state = _update_automation_state(
                                SavedFrom(inflight[p].state, state),
                                SubjectId, inflight[p].report.telemetry,
                                inflight[p].policy, inflight[p].acted,
                                inflight[p].now)])
    /\ UNCHANGED <<spec, clock, log, wg_tasks, created>>

\* the characters of the file after a text of size characters is written
\* from its start over the held characters it has
Overwritten(held, size) == IF held > size THEN held ELSE size

\* what _load_automation_state reads after the text of st is written from
\* the start of a file of held characters: the text stands whole, or is
\* followed by the end of what another invocation wrote after this one
\* opened the file.  The end "\n" alone is whitespace to json.loads; with
\* more than that json.loads raises and the state reads as {"tasks": {}}.
WrittenOver(held, st) ==
    IF held <= TextLength(st) + 1 THEN st ELSE NoState

\* l.350-357: write_text writes the dict's text from the start of the file
\* it opened, and the invocation returns
SaveWrite(p) ==
    /\ inflight[p].pc = "write"
    /\ state' = WrittenOver(state_size, inflight[p].state)
    /\ state_size' = Overwritten(state_size, TextLength(inflight[p].state))
    /\ Return(p, inflight[p].runs, inflight[p].report, inflight[p].policy,
              inflight[p].acted, inflight[p].task_state, "checked")
    /\ UNCHANGED <<spec, clock, log, wg_tasks, created>>

----------------------------------------------------------------------------
(* The environment of the serialized evaluations *)

\* the clock readings of the model: an hour apart, and more than a day apart
TimePoints == {0, Hour, Day + Hour}

\* time passes
Tick(t) ==
    /\ t > clock
    /\ clock' = t
    /\ NoOutputs
    /\ UNCHANGED <<inflight, spec, log, wg_tasks, state, state_size, created>>

\* what another drift tool writes into the subject task's log
ExternalMessages == {<<"Coredrift:", " yellow">>}

ExternalLog(msg, ts) ==
    /\ LogRoom
    /\ log' = Append(log, [is_dict |-> TRUE, message |-> msg, timestamp |-> ts])
    /\ NoOutputs
    /\ UNCHANGED <<inflight, spec, clock, wg_tasks, state, state_size, created>>

\* somebody finishes an open task
CloseTask(tid) ==
    /\ tid \in DOMAIN wg_tasks
    /\ wg_tasks[tid].status = "open"
    /\ wg_tasks' = [wg_tasks EXCEPT ![tid].status = "done"]
    /\ NoOutputs
    /\ UNCHANGED <<inflight, spec, clock, log, state, state_size, created>>

\* the bounds of the specs the serialized evaluations run under
MaxBreaker == 2
MaxPerHour == 1

\* a cooldown longer than the 24 hours action timestamps are kept
LongCooldown == 2 * Day

\* cooldown_seconds: an hour, or longer than the timestamps are kept
CooldownChoices == {Hour, LongCooldown}

\* min_new_signals: none needed, one needed
MinNewChoices == {0, 1}

\* the raw mapping of a therapydrift block
Raw(keys, schema, msc, cd, mph, mns, cba) ==
    [keys |-> keys,
     vals |-> [schema |-> schema, min_signal_count |-> msc,
               followup_prefixes |-> <<>>, require_recovery_plan |-> TRUE,
               ignore_signal_prefixes |-> <<>>, cooldown_seconds |-> cd,
               max_auto_actions_per_hour |-> mph, min_new_signals |-> mns,
               circuit_breaker_after |-> cba]]

PolicyKeys ==
    {"schema", "min_signal_count", "cooldown_seconds",
     "max_auto_actions_per_hour", "min_new_signals", "circuit_breaker_after"}

RawSpecs ==
    {Raw(PolicyKeys, 1, 1, cd, mph, mns, cba) :
        cd \in CooldownChoices, mph \in 0..MaxPerHour, mns \in MinNewChoices,
        cba \in 1..MaxBreaker}

\* the process the serialized invocations run as, one after the other
Serial == "a"

Init ==
    /\ spec \in {from_raw(raw) : raw \in RawSpecs}
    /\ clock = 0
    /\ log = <<>>
    /\ wg_tasks = <<>>
    /\ state = NoState
    /\ state_size = 0
    /\ loaded_state = EmptyTaskState
    /\ report = NoReport
    /\ policy = NoPolicy
    /\ action_created = FALSE
    /\ created = <<>>
    /\ inflight = NoInflight
    /\ path = "init"

\* `therapydrift wg check --task t1` is run again and again, each run after
\* the one before has returned; the clock, the log and the graph change under
\* it
Next ==
    \/ \E write_log, create_followups \in BOOLEAN :
          LoadTask(Serial, "ok", write_log, create_followups, 0)
    \/ \E write_log \in BOOLEAN : LoadTask(Serial, "invalid", write_log, FALSE, 0)
    \/ LoadTask(Serial, "none", FALSE, FALSE, 0)
    \/ ParseError(Serial)
    \/ LoadTasks(Serial)
    \/ LoadState(Serial)
    \/ Decide(Serial)
    \/ WriteLog(Serial)
    \/ EnsureTask(Serial)
    \/ SaveOpen(Serial)
    \/ SaveWrite(Serial)
    \/ \E t \in TimePoints : Tick(t)
    \/ \E msg \in ExternalMessages : ExternalLog(msg, isoformat(clock))
    \/ \E tid \in DOMAIN wg_tasks : CloseTask(tid)

Spec == Init /\ [][Next]_vars

----------------------------------------------------------------------------
(* The policy as a function: its inputs drawn from bounded sets *)

\* every sequence over S of length at most n
BoundedSeqs(S, n) == UNION {[1..k -> S] : k \in 0..n}

\* now, two hours after the oldest stored action
PolicyNow == 2 * Hour

\* stored action timestamps: two hours, one hour and half an hour old, and one
\* that does not parse
StampPool ==
    {isoformat(PolicyNow - 2 * Hour), isoformat(PolicyNow - Hour),
     isoformat(PolicyNow - DefaultCooldown), BadTs}

\* the stored list holds at most MaxStamps timestamps
MaxStamps == 2

PolicyCooldowns == {0, DefaultCooldown, Hour}

\* max_auto_actions_per_hour of the policy's inputs is at most MaxBudget
MaxBudget == 2

PolicyRaws ==
    {Raw(PolicyKeys, 1, 1, cd, mph, mns, cba) :
        cd \in PolicyCooldowns, mph \in 0..MaxBudget, mns \in MinNewChoices,
        cba \in 1..MaxBreaker}

\* the stored open_followup_ids, in any order
PrevFollowups ==
    {<<>>, <<ScopeId>>, <<ScopeId, TherapyTaskId(SubjectId)>>,
     <<TherapyTaskId(SubjectId), ScopeId>>}

\* telemetry's open_followup_ids, sorted
CurFollowups == {<<>>, <<ScopeId, TherapyTaskId(SubjectId)>>}

\* findings as compute_therapy_drift produces them
FindingLists ==
    {<<>>,
     <<Finding("unsupported_schema", "warn")>>,
     <<Finding("repeated_drift_signals", "warn")>>,
     <<Finding("unsupported_schema", "warn"),
       Finding("unresolved_drift_followups", "warn"),
       Finding("missing_recovery_plan", "warn")>>}

PolicyTaskStates ==
    {[EmptyTaskState EXCEPT !.auto_action_timestamps = stamps,
                            !.auto_action_total = total,
                            !.open_followup_ids = prev] :
        stamps \in BoundedSeqs(StampPool, MaxStamps), total \in 0..MaxBreaker,
        prev \in PrevFollowups}

PolicyTelemetries ==
    {[NoTelemetry EXCEPT !.new_signal_count = n, !.open_followup_ids = cur] :
        n \in MinNewChoices, cur \in CurFollowups}

PolicyInit ==
    /\ spec \in {from_raw(raw) : raw \in PolicyRaws}
    /\ clock = PolicyNow
    /\ log = <<>>
    /\ wg_tasks = <<>>
    /\ state \in {[t \in StateIds |->
                     IF t = SubjectId THEN ts ELSE EmptyTaskState] :
                  ts \in PolicyTaskStates}
    /\ state_size = 0
    /\ loaded_state = state[SubjectId]
    /\ report \in {[NoReport EXCEPT !.findings = f, !.telemetry = tel] :
                   f \in FindingLists, tel \in PolicyTelemetries}
    /\ policy = NoPolicy
    /\ action_created = FALSE
    /\ created = <<>>
    /\ inflight = NoInflight
    /\ path = "input"

\* the call of _evaluate_auto_action_policy on the inputs
PolicyEval ==
    /\ path = "input"
    /\ policy' = _evaluate_auto_action_policy(spec, report.findings,
                                              report.telemetry,
                                              loaded_state, clock)
    /\ path' = "decided"
    /\ UNCHANGED <<inflight, spec, clock, log, wg_tasks, state, state_size,
                   loaded_state, report, action_created, created>>

PolicyNext == PolicyEval

PolicySpec == PolicyInit /\ [][PolicyNext]_vars

----------------------------------------------------------------------------
(* Properties of the policy as a function (PolicySpec).  The facts are      *)
(* restated here from the inputs, without the policy's own operators.      *)

Decided == path = "decided"

InStamps == state[SubjectId].auto_action_timestamps
InParsed == {i \in DOMAIN InStamps : InStamps[i].kind = "iso"}
InRecentCount ==
    Cardinality({i \in InParsed : InStamps[i].t >= clock - Hour})
InLatest == {i \in InParsed : \A j \in InParsed : InStamps[j].t <= InStamps[i].t}
InActionable ==
    \E i \in DOMAIN report.findings :
        report.findings[i].kind \in
            {"repeated_drift_signals", "unresolved_drift_followups",
             "missing_recovery_plan"}
InBreakerOpen ==
    state[SubjectId].auto_action_total >= spec.circuit_breaker_after
InCooldownActive ==
    /\ spec.cooldown_seconds > 0
    /\ \E i \in InLatest : clock - InStamps[i].t < spec.cooldown_seconds
InFollowupsSame ==
    /\ \A i \in DOMAIN report.telemetry.open_followup_ids :
          \E j \in DOMAIN state[SubjectId].open_followup_ids :
             state[SubjectId].open_followup_ids[j] =
                report.telemetry.open_followup_ids[i]
    /\ \A j \in DOMAIN state[SubjectId].open_followup_ids :
          \E i \in DOMAIN report.telemetry.open_followup_ids :
             state[SubjectId].open_followup_ids[j] =
                report.telemetry.open_followup_ids[i]
InEnoughSignals ==
    report.telemetry.new_signal_count >= spec.min_new_signals
InBudgetLeft ==
    /\ spec.max_auto_actions_per_hour > 0
    /\ InRecentCount < spec.max_auto_actions_per_hour
Denied(reason) ==
    policy.allow_auto_action = FALSE /\ policy.reason = reason

\* C1: with an actionable finding and the prior auto_action_total at or above
\* circuit_breaker_after, the policy denies with reason circuit_breaker_open,
\* whatever the cooldown, the hourly budget and the evidence are.
C1_BreakerOpenDenies ==
    (Decided /\ InActionable /\ InBreakerOpen)
        => Denied("circuit_breaker_open")

\* the breaker is open while the budget is exhausted, the cooldown is active
\* and there is no new evidence
C1_Witness ==
    /\ Decided /\ InActionable /\ InBreakerOpen
    /\ ~InBudgetLeft /\ InCooldownActive
    /\ ~InEnoughSignals /\ InFollowupsSame
    /\ policy.reason = "circuit_breaker_open"

\* C6: the policy allows exactly when there is an actionable finding, the
\* breaker is closed, the budget is enabled and not exhausted, the cooldown is
\* not active and there is new evidence; and the reason is allowed exactly
\* when it allows.
C6_AllowedExactly ==
    Decided =>
        /\ policy.allow_auto_action =
              (/\ InActionable
               /\ ~InBreakerOpen
               /\ InBudgetLeft
               /\ ~InCooldownActive
               /\ (InEnoughSignals \/ ~InFollowupsSame))
        /\ (policy.reason = "allowed") = policy.allow_auto_action

\* allowed on a changed follow-up set alone, with stored timestamps that do
\* not count as recent (too old, or not parseable)
C6_Witness ==
    /\ Decided /\ policy.allow_auto_action
    /\ ~InEnoughSignals /\ ~InFollowupsSame
    /\ Len(InStamps) = MaxStamps /\ InRecentCount = 0
    /\ \E i \in DOMAIN InStamps : InStamps[i].kind = "bad"

\* the latest stored action is exactly cooldown_seconds old
InLatestExactlyCooled ==
    \E i \in InLatest : clock - InStamps[i].t = spec.cooldown_seconds

\* C7: with an actionable finding, a closed breaker and budget left, a latest
\* stored action less than cooldown_seconds old denies with cooldown_active,
\* new evidence or not; a latest action exactly cooldown_seconds old, or
\* cooldown_seconds = 0, does not make the cooldown active.
C7_CooldownDenies ==
    (Decided /\ InActionable /\ ~InBreakerOpen /\ InBudgetLeft) =>
        /\ InCooldownActive => Denied("cooldown_active")
        /\ (InLatestExactlyCooled \/ spec.cooldown_seconds = 0) =>
              /\ policy.cooldown_active = FALSE
              /\ policy.reason # "cooldown_active"

\* denied by the cooldown although there is new evidence of both kinds
C7_Witness ==
    /\ Decided /\ InActionable /\ ~InBreakerOpen /\ InBudgetLeft
    /\ InCooldownActive /\ InEnoughSignals /\ ~InFollowupsSame
    /\ policy.reason = "cooldown_active"

\* C8: with an actionable finding and no rule of higher precedence applying,
\* too few new signals and a follow-up id set equal to the stored one (as
\* sets) deny with no_new_evidence.
C8_NoNewEvidenceDenies ==
    (/\ Decided /\ InActionable /\ ~InBreakerOpen /\ InBudgetLeft
     /\ ~InCooldownActive
     /\ ~InEnoughSignals /\ InFollowupsSame)
        => Denied("no_new_evidence")

\* the stored ids are the current ones in another order
C8_Witness ==
    /\ Decided /\ InActionable /\ ~InBreakerOpen /\ InBudgetLeft
    /\ ~InCooldownActive /\ ~InEnoughSignals /\ InFollowupsSame
    /\ state[SubjectId].open_followup_ids #
          report.telemetry.open_followup_ids
    /\ policy.reason = "no_new_evidence"

\* C9: with an actionable finding and a closed breaker, a budget of 0 denies
\* with hourly_budget_disabled, and a positive budget that the actions of the
\* last hour have used up denies with hourly_budget_exhausted, also when the
\* cooldown is active or there is no new evidence.
C9_BudgetDenies ==
    (Decided /\ InActionable /\ ~InBreakerOpen) =>
        /\ spec.max_auto_actions_per_hour = 0
              => Denied("hourly_budget_disabled")
        /\ (/\ spec.max_auto_actions_per_hour > 0
            /\ InRecentCount >= spec.max_auto_actions_per_hour)
              => Denied("hourly_budget_exhausted")

\* the budget is exhausted by an action exactly one hour old, while the cooldown
\* is active and there is no new evidence
C9_Witness ==
    /\ Decided /\ InActionable /\ ~InBreakerOpen
    /\ spec.max_auto_actions_per_hour > 0
    /\ InRecentCount = spec.max_auto_actions_per_hour
    /\ \E i \in InParsed : InStamps[i].t = clock - Hour
    /\ InCooldownActive /\ ~InEnoughSignals /\ InFollowupsSame
    /\ policy.reason = "hourly_budget_exhausted"

\* C10: without a finding of an actionable kind the policy denies with
\* no_actionable_findings, whatever the breaker, the budget, the cooldown and
\* the evidence are.
C10_NoActionableDenies ==
    (Decided /\ ~InActionable) => Denied("no_actionable_findings")

\* only unsupported_schema was found, and the breaker is open
C10_Witness ==
    /\ Decided /\ ~InActionable /\ report.findings # <<>>
    /\ InBreakerOpen /\ InEnoughSignals
    /\ policy.reason = "no_actionable_findings"

----------------------------------------------------------------------------
(* Properties of the serialized evaluations of one task (Spec) *)

Stored == state[SubjectId]
Checked == path = "checked"

\* the serialized invocation under way, and whether state.json is open for
\* its write, emptied
Running == inflight[Serial]
Saving == Running.pc = "write"

\* the action of the invocation under way that its save has yet to count
Uncounted == IF Running.acted /\ ~Saving THEN 1 ELSE 0

\* C2: the actions created never outnumber circuit_breaker_after.  The
\* stored auto_action_total counts every action created, so it never
\* decreases; an evaluation that loads a total at the threshold or above is
\* denied and creates no action, and the total it writes is no smaller.
C2_BreakerBoundsActions ==
    /\ [](Len(created) <= spec.circuit_breaker_after)
    /\ [](~Saving => Stored.auto_action_total + Uncounted = Len(created))
    /\ []((Checked
            /\ loaded_state.auto_action_total >= spec.circuit_breaker_after)
           => /\ ~policy.allow_auto_action
              /\ ~action_created
              /\ Stored.auto_action_total >= loaded_state.auto_action_total)
    /\ [][created' # created =>
            Running.task_state.auto_action_total
               < spec.circuit_breaker_after]_vars

\* the second of two allowed actions has opened the breaker, and the
\* evaluation after it is denied for that
C2_Witness ==
    /\ Checked
    /\ spec.circuit_breaker_after = MaxBreaker
    /\ Len(created) = MaxBreaker
    /\ Stored.auto_action_total = MaxBreaker
    /\ policy.reason = "circuit_breaker_open"

\* C3: with cooldown_seconds > 0, two consecutive actions of the task are at
\* least cooldown_seconds apart, for every value of cooldown_seconds.
C3_CooldownApart ==
    spec.cooldown_seconds > 0 =>
        \A i \in 1..(Len(created) - 1) :
            created[i + 1] - created[i] >= spec.cooldown_seconds

\* the actions created in the hour that ends at t
CreatedInHourTo(t) ==
    {i \in DOMAIN created : created[i] >= t - Hour /\ created[i] <= t}

\* C4: at every moment the actions created within the preceding hour number
\* at most max_auto_actions_per_hour; with a budget of 0 none is ever created.
C4_HourlyBudget ==
    /\ \A t \in TimePoints :
          Cardinality(CreatedInHourTo(t)) <= spec.max_auto_actions_per_hour
    /\ spec.max_auto_actions_per_hour = 0 => created = <<>>

\* an evaluation exactly one hour after an action is denied because that action
\* still uses up the budget
C4_Witness ==
    /\ Checked
    /\ created # <<>>
    /\ clock - created[Len(created)] = Hour
    /\ Cardinality(CreatedInHourTo(clock)) = spec.max_auto_actions_per_hour
    /\ policy.reason = "hourly_budget_exhausted"

\* C5: the recovery task is created only by an evaluation whose decision
\* allows; a denied evaluation and the no-block and parse-error paths create
\* no task and have action_created false.
C5_ActionOnlyWhenAllowed ==
    /\ [][(created' # created \/ DOMAIN wg_tasks' # DOMAIN wg_tasks)
            => /\ Running.pc = "ensure_task"
               /\ Running.policy.allow_auto_action
               /\ Running'.acted]_vars
    /\ [](Running.acted => Running.policy.allow_auto_action)
    /\ [](action_created => (Checked /\ policy.allow_auto_action))

\* an allowed evaluation has created the recovery task
C5_Witness ==
    /\ Checked /\ policy.allow_auto_action /\ action_created
    /\ created # <<>>
    /\ TherapyTaskId(SubjectId) \in DOMAIN wg_tasks

----------------------------------------------------------------------------
(* compute_therapy_drift as a function: its inputs drawn from bounded sets *)

\* the times of the signals in the log
EarlySignal == Hour
LateSignal == 2 * Hour

\* one entry of a task's log
Entry(message, ts) == [is_dict |-> TRUE, message |-> message, timestamp |-> ts]

\* an entry of the log that is no dict
NonDictEntry == [is_dict |-> FALSE, message |-> <<>>, timestamp |-> EmptyTs]

\* the entries a log of the model is made of: signals of two tools with their
\* times, a summary of this tool, signals without a time and with a time that
\* does not parse, a note that is no drift message, and a non-dict
EntryPool ==
    {Entry(<<"Coredrift:", " yellow">>, isoformat(EarlySignal)),
     Entry(<<"Speedrift:", " yellow">>, isoformat(LateSignal)),
     Entry(<<"Therapydrift:", " yellow">>, isoformat(LateSignal)),
     Entry(<<"Coredrift:", " red">>, EmptyTs),
     Entry(<<"Specdrift:", " yellow">>, BadTs),
     Entry(<<"Manual:", " note">>, isoformat(LateSignal)),
     NonDictEntry}

\* a log holds at most MaxEntries entries
MaxEntries == 3

\* min_signal_count of a block is at most MaxSignals
MaxSignals == 2

\* ignore_signal_prefixes of a block: not set, another tool's prefix, and a
\* prefix that is no drift prefix next to this tool's
IgnoreChoices ==
    {<<>>, << <<"Coredrift:">> >>, << <<"Manual:">>, <<"Therapydrift:">> >>}

\* followup_prefixes of a block: not set, and prefixes of its own
FollowupPrefixChoices == {<<>>, << <<"misc-">>, <<"t1">> >>}

\* previous_latest_signal_ts: none, not parseable, and the signals' times
PreviousStamps ==
    {EmptyTs, BadTs, isoformat(EarlySignal), isoformat(LateSignal)}

DriftKeys ==
    {"schema", "min_signal_count", "followup_prefixes",
     "require_recovery_plan", "ignore_signal_prefixes"}

\* the raw mapping of a block that sets the keys of the drift evaluation
DriftRaw(schema, msc, fp, rrp, ign) ==
    [keys |-> DriftKeys,
     vals |-> [Raw(DriftKeys, schema, msc, 0, 0, 0, 0).vals
                 EXCEPT !.followup_prefixes = fp,
                        !.require_recovery_plan = rrp,
                        !.ignore_signal_prefixes = ign]]

\* one task of the graph
Task(id, status, blocked_by) ==
    [id |-> id, status |-> status, blocked_by |-> blocked_by]

\* no task under a key
Absent == Task(<<>>, "absent", <<>>)

\* a key of the dict that is not the id of the task it holds
AliasKey == <<"alias">>

SubjectTasks ==
    {Task(SubjectId, "in-progress", <<>>),
     Task(SubjectId, "in-progress", <<SubjectId>>)}

ScopeTasks ==
    {Absent,
     Task(ScopeId, "open", <<SubjectId>>),
     Task(ScopeId, "in-progress", <<BystanderId, SubjectId>>),
     Task(ScopeId, "done", <<SubjectId>>),
     Task(ScopeId, "open", <<BystanderId>>)}

TherapyTasks ==
    {Absent,
     Task(TherapyTaskId(SubjectId), "open", <<SubjectId>>),
     Task(TherapyTaskId(SubjectId), "in-progress", <<>>),
     Task(TherapyTaskId(SubjectId), "done", <<SubjectId>>),
     Task(TherapyTaskId(SubjectId), "abandoned", <<SubjectId>>)}

MiscTasks == {Absent, Task(MiscId, "open", <<SubjectId>>)}

\* a second entry of the dict with the id of the scope follow-up, and an entry
\* without an id
AliasTasks ==
    {Absent, Task(ScopeId, "open", <<SubjectId>>),
     Task(<<>>, "open", <<SubjectId>>)}

\* the dict of the tasks given, less the absent ones
TaskDict(subject, scope, therapy, misc, alias) ==
    LET all == [k \in {SubjectId, ScopeId, TherapyTaskId(SubjectId), MiscId,
                       AliasKey} |->
                  IF k = SubjectId THEN subject
                  ELSE IF k = ScopeId THEN scope
                  ELSE IF k = TherapyTaskId(SubjectId) THEN therapy
                  ELSE IF k = MiscId THEN misc
                  ELSE alias]
    IN  [k \in {k \in DOMAIN all : all[k].status # "absent"} |-> all[k]]

\* a graph with one follow-up more than telemetry lists
Crowd ==
    [k \in {Follower(n) : n \in 1..(FollowupCap + 1)} \cup {SubjectId} |->
        IF k = SubjectId THEN Task(SubjectId, "in-progress", <<>>)
        ELSE Task(k, "open", <<SubjectId>>)]

TaskCollections ==
    {TaskDict(subject, scope, therapy, misc, alias) :
        subject \in SubjectTasks, scope \in ScopeTasks,
        therapy \in TherapyTasks, misc \in MiscTasks, alias \in AliasTasks}
    \cup {Crowd}

\* the inputs that vary the log: every log, ignore list and previous stamp
SignalInputs ==
    {[sp |-> from_raw(DriftRaw(1, msc, <<>>, TRUE, ign)), log |-> lg,
      previous |-> prev,
      tasks |-> TaskDict(Task(SubjectId, "in-progress", <<>>), Absent, Absent,
                         Absent, Absent)] :
        msc \in 0..MaxSignals, ign \in IgnoreChoices,
        lg \in BoundedSeqs(EntryPool, MaxEntries), prev \in PreviousStamps}

\* the inputs that vary the graph: every collection of tasks, schema,
\* require_recovery_plan and follow-up prefix list
TaskInputs ==
    {[sp |-> from_raw(DriftRaw(schema, msc, fp, rrp, <<>>)), log |-> lg,
      previous |-> EmptyTs, tasks |-> tasks] :
        schema \in {1, 2}, msc \in 1..MaxSignals,
        fp \in FollowupPrefixChoices, rrp \in BOOLEAN,
        lg \in {<<>>, <<Entry(<<"Coredrift:", " yellow">>,
                              isoformat(EarlySignal))>>},
        tasks \in TaskCollections}

DriftInit ==
    /\ \E inp \in SignalInputs \cup TaskInputs :
          /\ spec = inp.sp
          /\ log = inp.log
          /\ wg_tasks = inp.tasks
          /\ state = [t \in StateIds |->
                        IF t = SubjectId
                        THEN [EmptyTaskState EXCEPT
                                !.latest_signal_ts = inp.previous]
                        ELSE EmptyTaskState]
    /\ state_size = 0
    /\ loaded_state = state[SubjectId]
    /\ clock = LateSignal
    /\ report = NoReport
    /\ policy = NoPolicy
    /\ action_created = FALSE
    /\ created = <<>>
    /\ inflight = NoInflight
    /\ path = "input"

\* the call of compute_therapy_drift on the inputs
DriftEval ==
    /\ path = "input"
    /\ report' = compute_therapy_drift(SubjectId, spec, [log |-> log],
                                       wg_tasks, loaded_state.latest_signal_ts)
    /\ path' = "computed"
    /\ UNCHANGED <<inflight, spec, clock, log, wg_tasks, state, state_size,
                   loaded_state, policy, action_created, created>>

DriftNext == DriftEval

DriftSpec == DriftInit /\ [][DriftNext]_vars

----------------------------------------------------------------------------
(* Properties of compute_therapy_drift as a function (DriftSpec).  The      *)
(* facts are restated here from the inputs.                                *)

Computed == path = "computed"
Kinds == {report.findings[i].kind : i \in DOMAIN report.findings}

\* m starts with p, token by token
HasPrefix(m, p) == Len(m) >= Len(p) /\ \A k \in 1..Len(p) : m[k] = p[k]

\* the log entries whose message starts with a recognized drift prefix
LogDrift ==
    {i \in DOMAIN log :
        /\ log[i].is_dict
        /\ \E p \in {<<"Coredrift:">>, <<"Speedrift:">>, <<"Specdrift:">>,
                     <<"Datadrift:">>, <<"Depsdrift:">>, <<"Uxdrift:">>,
                     <<"Therapydrift:">>} : HasPrefix(log[i].message, p)}

\* the log entries whose message starts with an ignore prefix of the spec
LogIgnorePrefixed ==
    {i \in DOMAIN log :
        /\ log[i].is_dict
        /\ \E j \in DOMAIN spec.ignore_signal_prefixes :
              HasPrefix(log[i].message, spec.ignore_signal_prefixes[j])}

LogSignals == LogDrift \ LogIgnorePrefixed

\* C11: repeated_drift_signals is found exactly when the log messages that
\* start with a drift prefix and with no ignore prefix number at least
\* min_signal_count (which is at least 1): N of them are enough, N-1 are not.
C11_RepeatedSignalsAtThreshold ==
    Computed =>
        /\ spec.min_signal_count >= 1
        /\ ("repeated_drift_signals" \in Kinds)
              = (Cardinality(LogSignals) >= spec.min_signal_count)

\* exactly min_signal_count signals next to an ignored one trigger the finding
C11_Witness ==
    /\ Computed
    /\ spec.min_signal_count = MaxSignals
    /\ Cardinality(LogSignals) = MaxSignals
    /\ LogDrift \cap LogIgnorePrefixed # {}
    /\ "repeated_drift_signals" \in Kinds

\* the log without the entries whose message starts with an ignore prefix
LogWithoutIgnored ==
    LET NotIgnored(e) ==
            ~(/\ e.is_dict
              /\ \E j \in DOMAIN spec.ignore_signal_prefixes :
                    HasPrefix(e.message, spec.ignore_signal_prefixes[j]))
    IN  SelectSeq(log, NotIgnored)

\* the telemetry of the same evaluation on the log without those entries
TelemetryWithoutIgnored ==
    compute_therapy_drift(SubjectId, spec, [log |-> LogWithoutIgnored],
                          wg_tasks,
                          state[SubjectId].latest_signal_ts).telemetry

\* drift_signal_count and new_signal_count are what they are without the
\* messages that start with an ignore prefix
IgnoredNeverCounted ==
    /\ report.telemetry.drift_signal_count = Cardinality(LogSignals)
    /\ report.telemetry.drift_signal_count
          = TelemetryWithoutIgnored.drift_signal_count
    /\ report.telemetry.new_signal_count
          = TelemetryWithoutIgnored.new_signal_count

\* C12 as stated: no message that starts with an ignore prefix is counted in
\* drift_signal_count or new_signal_count, and every such message is counted
\* in ignored_self_signals.
C12_EveryIgnoredCounted ==
    Computed =>
        /\ IgnoredNeverCounted
        /\ report.telemetry.ignored_self_signals
              = Cardinality(LogIgnorePrefixed)

\* C12 as amended: no message that starts with an ignore prefix is counted in
\* drift_signal_count or new_signal_count, and every such message that also
\* starts with a recognized drift prefix is counted in ignored_self_signals.
C12_IgnoredDriftCounted ==
    Computed =>
        /\ IgnoredNeverCounted
        /\ report.telemetry.ignored_self_signals
              = Cardinality(LogDrift \cap LogIgnorePrefixed)

\* an ignored drift message, newer than the previous latest signal, next to a
\* signal that counts
C12_Witness ==
    /\ Computed
    /\ report.telemetry.ignored_self_signals = 1
    /\ report.telemetry.drift_signal_count = 1
    /\ report.telemetry.new_signal_count = 0
    /\ \E i \in LogDrift \cap LogIgnorePrefixed :
          /\ log[i].timestamp.kind = "iso"
          /\ state[SubjectId].latest_signal_ts.kind = "iso"
          /\ log[i].timestamp.t > state[SubjectId].latest_signal_ts.t

Previous == state[SubjectId].latest_signal_ts

\* the signals with a parseable timestamp later than the previous latest one
LogFresh ==
    {i \in LogSignals :
        /\ log[i].timestamp.kind = "iso"
        /\ log[i].timestamp.t > Previous.t}

\* C13: new_signal_count is the number of signals whose timestamp is strictly
\* greater than previous_latest_signal_ts (one equal to it, missing or not
\* parseable is not new); without a parseable previous_latest_signal_ts it is
\* drift_signal_count.
C13_NewSignalCount ==
    Computed =>
        /\ report.telemetry.drift_signal_count = Cardinality(LogSignals)
        /\ report.telemetry.new_signal_count =
              IF Previous.kind = "iso" THEN Cardinality(LogFresh)
              ELSE report.telemetry.drift_signal_count

\* of three signals, the one as old as the previous latest and the one without
\* a parseable timestamp are not new
C13_Witness ==
    /\ Computed
    /\ Previous = isoformat(EarlySignal)
    /\ report.telemetry.drift_signal_count = 3
    /\ report.telemetry.new_signal_count = 1
    /\ \E i \in LogSignals : log[i].timestamp = Previous
    /\ \E i \in LogSignals : log[i].timestamp.kind # "iso"

\* the graph holds the recovery task with a status that counts
InTherapyExists ==
    \E k \in DOMAIN wg_tasks :
        /\ k = <<"drift-", "therapy-", "t1">>
        /\ wg_tasks[k].status \in {"open", "in-progress", "done"}

\* C14: missing_recovery_plan is found exactly when require_recovery_plan is
\* set, another finding fired in the same evaluation and the graph has no
\* task drift-therapy-<task_id> of status open, in-progress or done; it is
\* never the only finding.
C14_MissingRecoveryPlan ==
    Computed =>
        /\ ("missing_recovery_plan" \in Kinds)
              = (/\ spec.require_recovery_plan
                 /\ Kinds \cap {"unsupported_schema", "repeated_drift_signals",
                                "unresolved_drift_followups"} # {}
                 /\ ~InTherapyExists)
        /\ Kinds # {"missing_recovery_plan"}

\* the recovery task exists but was abandoned, and only the schema is wrong
C14_Witness ==
    /\ Computed
    /\ Kinds = {"unsupported_schema", "missing_recovery_plan"}
    /\ <<"drift-", "therapy-", "t1">> \in DOMAIN wg_tasks
    /\ wg_tasks[<<"drift-", "therapy-", "t1">>].status = "abandoned"

\* the ids of the tasks that are open follow-ups of the subject task
InFollowups ==
    {wg_tasks[k].id : k \in
        {k \in DOMAIN wg_tasks :
            /\ wg_tasks[k].status \in {"open", "in-progress"}
            /\ \E j \in DOMAIN wg_tasks[k].blocked_by :
                  wg_tasks[k].blocked_by[j] = SubjectId
            /\ wg_tasks[k].id # SubjectId
            /\ \E j \in DOMAIN spec.followup_prefixes :
                  HasPrefix(wg_tasks[k].id, spec.followup_prefixes[j])}}

\* C15: the score is green exactly when there is no finding, yellow exactly
\* when a finding has severity warn and none has severity error, red exactly
\* when a finding has severity error; without drift signals and open
\* follow-ups, schema 1 gives green and no finding.
C15_Score ==
    Computed =>
        /\ (report.score = "green") = (report.findings = <<>>)
        /\ (report.score = "yellow")
              = (/\ \E i \in DOMAIN report.findings :
                       report.findings[i].severity = "warn"
                 /\ \A i \in DOMAIN report.findings :
                       report.findings[i].severity # "error")
        /\ (report.score = "red")
              = (\E i \in DOMAIN report.findings :
                    report.findings[i].severity = "error")
        /\ (LogSignals = {} /\ InFollowups = {} /\ spec.schema = 1)
              => (report.score = "green" /\ report.findings = <<>>)

\* green although the log holds one signal and an ignored drift message, and
\* the graph a closed follow-up
C15_Witness ==
    /\ Computed
    /\ report.score = "green"
    /\ report.findings = <<>>
    /\ Cardinality(LogSignals) = 1
    /\ spec.min_signal_count = MaxSignals
    /\ LogDrift \cap LogIgnorePrefixed # {}

\* the place of an id in the order of the id strings
Place(id) == CHOOSE i \in DOMAIN IdOrder : IdOrder[i] = id

\* C20: telemetry's open_drift_followups is the number of the tasks that are
\* open or in-progress, blocked by the subject task, not the subject task, and
\* named with a follow-up prefix; open_followup_ids lists them sorted and
\* without duplicates, the first 50 of them; unresolved_drift_followups is
\* found exactly when there is one.
C20_FollowupTracker ==
    Computed =>
        LET ids == report.telemetry.open_followup_ids
        IN  /\ report.telemetry.open_drift_followups = Cardinality(InFollowups)
            /\ Len(ids) = IF Cardinality(InFollowups) < 50
                          THEN Cardinality(InFollowups) ELSE 50
            /\ \A i \in DOMAIN ids : ids[i] \in InFollowups
            /\ \A i, j \in DOMAIN ids : i < j => Place(ids[i]) < Place(ids[j])
            /\ \A id \in InFollowups :
                  (\A i \in DOMAIN ids : ids[i] # id)
                      => \A i \in DOMAIN ids : Place(ids[i]) < Place(id)
            /\ ("unresolved_drift_followups" \in Kinds) = (InFollowups # {})

\* one follow-up more than telemetry lists
C20_Witness ==
    /\ Computed
    /\ Cardinality(InFollowups) = FollowupCap + 1
    /\ report.telemetry.open_drift_followups = FollowupCap + 1
    /\ Len(report.telemetry.open_followup_ids) = FollowupCap
    /\ "unresolved_drift_followups" \in Kinds

----------------------------------------------------------------------------
(* Properties of the evaluation of a block that does not parse (Spec) *)

\* C16: an evaluation whose therapydrift block does not parse ends with score
\* yellow and one finding of severity warn, does not evaluate the policy,
\* creates no action and leaves the task's persisted automation state (action
\* timestamps, auto_action_total, latest_signal_ts, open_followup_ids) as it
\* was.
C16_ParseErrorLeavesState ==
    [][/\ (Running.pc = "parse_error" \/ Running'.pc = "parse_error")
          => (state' = state /\ created' = created)
       /\ path' = "parse_error" =>
          /\ report'.score = "yellow"
          /\ Len(report'.findings) = 1
          /\ report'.findings[1].severity = "warn"
          /\ policy'.reason = "not_evaluated"
          /\ ~policy'.allow_auto_action
          /\ ~action_created'
          /\ created' = created
          /\ wg_tasks' = wg_tasks
          /\ state' = state]_vars

\* the block stops parsing after an action was created and its follow-up seen
C16_Witness ==
    /\ path = "parse_error"
    /\ report.score = "yellow"
    /\ Stored.auto_action_total > 0
    /\ Stored.auto_action_timestamps # <<>>
    /\ Stored.latest_signal_ts.kind = "iso"
    /\ Stored.open_followup_ids # <<>>

----------------------------------------------------------------------------
(* _update_automation_state as a function: its inputs drawn from bounded    *)
(* sets                                                                    *)

\* now, 25 hours after the oldest stored action
UpdateNow == Day + Hour

\* stored action timestamps: 25 hours, exactly 24 hours and one hour old, and
\* one that does not parse
UpdateStampPool ==
    {isoformat(UpdateNow - Day - Hour), isoformat(UpdateNow - Day),
     isoformat(UpdateNow - Hour), BadTs}

\* the stored list of the updater's inputs holds at most MaxStored timestamps
MaxStored == 3

\* latest_signal_ts, stored or observed: none, and the signals' times
LatestChoices == {EmptyTs, isoformat(EarlySignal), isoformat(LateSignal)}

\* the subject task's entry before the update
UpdateTaskStates ==
    {[EmptyTaskState EXCEPT !.auto_action_timestamps = stamps,
                            !.auto_action_total = total,
                            !.latest_signal_ts = latest,
                            !.open_followup_ids = prev] :
        stamps \in BoundedSeqs(UpdateStampPool, MaxStored),
        total \in 0..MaxBreaker, latest \in LatestChoices,
        prev \in {<<>>, <<ScopeId>>}}

\* the entry of another task: none yet, and one with an action on record
BystanderStates ==
    {EmptyTaskState,
     [EmptyTaskState EXCEPT !.last_check_ts = isoformat(0),
                            !.auto_action_timestamps = <<isoformat(0)>>,
                            !.auto_action_total = 1]}

\* the telemetry of the evaluation
UpdateTelemetries ==
    {[NoTelemetry EXCEPT !.latest_signal_ts = latest,
                         !.drift_signal_count =
                            IF latest = EmptyTs THEN 0 ELSE 1,
                         !.open_drift_followups = Len(cur),
                         !.open_followup_ids = cur] :
        latest \in LatestChoices, cur \in CurFollowups}

\* the policy decision of the evaluation, as far as the updater reads it
UpdatePolicies == {NoPolicy, [NoPolicy EXCEPT !.circuit_breaker_open = TRUE]}

UpdateInit ==
    /\ spec = from_raw(Raw({}, 1, 1, 0, 0, 0, 0))
    /\ clock = UpdateNow
    /\ log = <<>>
    /\ wg_tasks = <<>>
    /\ state \in {[t \in StateIds |-> IF t = SubjectId THEN ts ELSE other] :
                  ts \in UpdateTaskStates, other \in BystanderStates}
    /\ state_size = 0
    /\ loaded_state = state[SubjectId]
    /\ report \in {[NoReport EXCEPT !.telemetry = tel] :
                   tel \in UpdateTelemetries}
    /\ policy \in UpdatePolicies
    /\ action_created = FALSE
    /\ created = <<>>
    /\ inflight = NoInflight
    /\ path = "input"

\* the call of _update_automation_state on the inputs
UpdateEval(created_now) ==
    /\ path = "input"
    /\ state' = _update_automation_state(state, SubjectId, report.telemetry,
                                         policy, created_now, clock)
    /\ action_created' = created_now
    /\ path' = "updated"
    /\ UNCHANGED <<inflight, spec, clock, log, wg_tasks, state_size,
                   loaded_state, report, policy, created>>

UpdateNext == \E created_now \in BOOLEAN : UpdateEval(created_now)

UpdateSpec == UpdateInit /\ [][UpdateNext]_vars

----------------------------------------------------------------------------
(* Properties of _update_automation_state as a function (UpdateSpec):      *)
(* loaded_state is the task's entry before the update, Stored the one      *)
(* after it.                                                               *)

Updated == path = "updated"

\* the prior timestamps that parse and are not older than 24 hours
PriorWithinDay ==
    LET Within(ts) == ts.kind = "iso" /\ ts.t >= clock - 24 * 3600
    IN  SelectSeq(loaded_state.auto_action_timestamps, Within)

\* C17: after an update with action_created the task's auto_action_total is
\* one more than before and now's timestamp is the last of its
\* auto_action_timestamps; without action_created the total is the prior one
\* and no timestamp is appended; either way last_check_ts is now, and the
\* entries of the other task ids are unchanged.
C17_UpdateCountsAction ==
    /\ [](Updated =>
            /\ action_created =>
                  /\ Stored.auto_action_total
                        = loaded_state.auto_action_total + 1
                  /\ Stored.auto_action_timestamps
                        = Append(PriorWithinDay, isoformat(clock))
            /\ ~action_created =>
                  /\ Stored.auto_action_total = loaded_state.auto_action_total
                  /\ Stored.auto_action_timestamps = PriorWithinDay
            /\ Stored.last_check_ts = isoformat(clock))
    /\ [][Updated' =>
            /\ DOMAIN state' = DOMAIN state
            /\ \A t \in DOMAIN state \ {SubjectId} : state'[t] = state[t]]_vars

\* an action is counted on top of a full record, next to another task's entry
C17_Witness ==
    /\ Updated /\ action_created
    /\ loaded_state.auto_action_total = MaxBreaker
    /\ Stored.auto_action_total = MaxBreaker + 1
    /\ Len(loaded_state.auto_action_timestamps) = MaxStored
    /\ Len(Stored.auto_action_timestamps) = MaxStored + 1
    /\ Stored.auto_action_timestamps[MaxStored + 1] = isoformat(clock)
    /\ state[BystanderId].auto_action_total = 1

\* s is t with some entries left out, the others in their order
RECURSIVE IsSubsequence(_, _)
IsSubsequence(s, t) ==
    IF s = <<>> THEN TRUE
    ELSE IF t = <<>> THEN FALSE
    ELSE IF s[1] = t[1] THEN IsSubsequence(Tail(s), Tail(t))
    ELSE IsSubsequence(s, Tail(t))

\* the stored timestamps less the one an action appended
StoredPrior ==
    IF action_created
    THEN SubSeq(Stored.auto_action_timestamps, 1,
                Len(Stored.auto_action_timestamps) - 1)
    ELSE Stored.auto_action_timestamps

\* C18: after an update at time now every stored action timestamp parses and
\* is not older than now - 24 hours; the prior entries that do not parse or
\* are older are gone, those within 24 hours are kept in their order; and
\* auto_action_total is not less than before.
C18_PruneTo24Hours ==
    Updated =>
        /\ \A i \in DOMAIN Stored.auto_action_timestamps :
              /\ Stored.auto_action_timestamps[i].kind = "iso"
              /\ Stored.auto_action_timestamps[i].t >= clock - Day
        /\ IsSubsequence(StoredPrior, loaded_state.auto_action_timestamps)
        /\ Len(StoredPrior)
              = Cardinality({i \in DOMAIN loaded_state.auto_action_timestamps :
                    /\ loaded_state.auto_action_timestamps[i].kind = "iso"
                    /\ loaded_state.auto_action_timestamps[i].t
                          >= clock - Day})
        /\ Stored.auto_action_total >= loaded_state.auto_action_total

\* of three timestamps the one 25 hours old is gone, and the other two, the
\* newer one first and then the one exactly 24 hours old, are kept in that
\* order, while the total stays
C18_Witness ==
    /\ Updated /\ ~action_created
    /\ loaded_state.auto_action_timestamps
          = <<isoformat(clock - Day - Hour), isoformat(clock - Hour),
              isoformat(clock - Day)>>
    /\ Stored.auto_action_timestamps
          = <<isoformat(clock - Hour), isoformat(clock - Day)>>
    /\ Stored.auto_action_total = MaxBreaker

\* C19: the stored latest_signal_ts changes only to a newer timestamp: it
\* never moves backwards, also when the evaluation's latest signal timestamp
\* is older than the stored one, and it is kept when the evaluation observed
\* no timestamp.
C19_LatestNeverBackwards ==
    Updated =>
        /\ loaded_state.latest_signal_ts.kind = "iso" =>
              /\ Stored.latest_signal_ts.kind = "iso"
              /\ Stored.latest_signal_ts.t >= loaded_state.latest_signal_ts.t
        /\ report.telemetry.latest_signal_ts.kind = "empty" =>
              Stored.latest_signal_ts = loaded_state.latest_signal_ts

----------------------------------------------------------------------------
(* Two processes run the command for the same task at the same time: the   *)
(* steps of their invocations interleave.  Nothing locks state.json or the *)
(* graph.                                                                  *)

\* each process runs the command at most MaxRuns times
MaxRuns == 2

\* process p runs `therapydrift wg check --task t1 --create-followups`
RaceStart(p) ==
    /\ inflight[p].runs < MaxRuns
    /\ LoadTask(p, "ok", FALSE, TRUE, inflight[p].runs + 1)

\* the task has one drift signal in its log and no state yet
RaceInit ==
    /\ spec \in {from_raw(raw) : raw \in RawSpecs}
    /\ clock = 0
    /\ log = <<Entry(<<"Coredrift:", " yellow">>, isoformat(0))>>
    /\ wg_tasks = <<>>
    /\ state = NoState
    /\ state_size = 0
    /\ loaded_state = EmptyTaskState
    /\ report = NoReport
    /\ policy = NoPolicy
    /\ action_created = FALSE
    /\ created = <<>>
    /\ path = "init"
    /\ inflight = NoInflight

RaceNext ==
    \/ \E p \in Procs : RaceStart(p)
    \/ \E p \in Procs : LoadTasks(p)
    \/ \E p \in Procs : LoadState(p)
    \/ \E p \in Procs : Decide(p)
    \/ \E p \in Procs : EnsureTask(p)
    \/ \E p \in Procs : SaveOpen(p)
    \/ \E p \in Procs : SaveWrite(p)

RaceSpec == RaceInit /\ [][RaceNext]_vars

\* no invocation is under way
AllReturned == \A p \in Procs : inflight[p].pc = "idle"

\* C21: with interleaved invocations the persisted entry, once an invocation
\* has returned, is the one that writer made of the state it had loaded:
\* that state's total, plus one if the writer created an action, and that
\* state's timestamps within 24 hours, plus now's if it did; what another
\* invocation wrote in between is not in it, so the total may stay behind
\* the actions created.
C21_LastWriterWins ==
    Checked =>
        /\ Stored.auto_action_total
              = loaded_state.auto_action_total
                   + (IF action_created THEN 1 ELSE 0)
        /\ Stored.auto_action_timestamps
              = IF action_created
                THEN Append(PriorWithinDay, isoformat(clock))
                ELSE PriorWithinDay
        /\ Stored.auto_action_total <= Len(created)

----------------------------------------------------------------------------
(* Properties of the loop of serialized evaluations: what an evaluation    *)
(* writes and what the next one reads (Spec)                               *)

\* the evaluation before this one created an action and persisted it
AfterOwnAction ==
    /\ loaded_state.auto_action_timestamps # <<>>
    /\ loaded_state.last_check_ts
          = loaded_state.auto_action_timestamps[
               Len(loaded_state.auto_action_timestamps)]

\* the graph holds the recovery task as the action created it, and no other
\* follow-up
OnlyOwnFollowup ==
    /\ DOMAIN wg_tasks = {TherapyTaskId(SubjectId)}
    /\ wg_tasks[TherapyTaskId(SubjectId)].status = "open"
    /\ wg_tasks[TherapyTaskId(SubjectId)].blocked_by = <<SubjectId>>

\* C22: the evaluation that follows an action of this tool, with no log
\* signal appended since and the recovery task the only follow-up, open as it
\* was created, is denied and creates no second action (for a spec that asks
\* for at least one new signal).
C22_OwnActionNoEvidence ==
    (/\ Checked
     /\ AfterOwnAction
     /\ OnlyOwnFollowup
     /\ spec.min_new_signals >= 1
     /\ report.telemetry.new_signal_count = 0
     /\ report.telemetry.drift_signal_count = loaded_state.drift_signal_count)
        => (~policy.allow_auto_action /\ ~action_created)

----------------------------------------------------------------------------
(* The same serialized evaluations, for specs that set their own            *)
(* ignore_signal_prefixes and logs whose signals carry no usable timestamp  *)

LoopKeys == PolicyKeys \cup {"ignore_signal_prefixes"}

\* no cooldown, one action an hour, the breaker at MaxBreaker
LoopRaw(ign, mns) ==
    [Raw(LoopKeys, 1, 1, 0, 1, mns, MaxBreaker)
        EXCEPT !.vals.ignore_signal_prefixes = ign]

LoopRaws == {LoopRaw(ign, mns) : ign \in IgnoreChoices, mns \in MinNewChoices}

\* the log the subject task starts with: empty, or one drift signal whose
\* timestamp is missing or does not parse
LoopLogs ==
    {<<>>,
     <<Entry(<<"Coredrift:", " yellow">>, EmptyTs)>>,
     <<Entry(<<"Specdrift:", " red">>, BadTs)>>}

LoopInit ==
    /\ spec \in {from_raw(raw) : raw \in LoopRaws}
    /\ clock = 0
    /\ log \in LoopLogs
    /\ wg_tasks = <<>>
    /\ state = [t \in StateIds |-> EmptyTaskState]
    /\ state_size = 0
    /\ loaded_state = EmptyTaskState
    /\ report = NoReport
    /\ policy = NoPolicy
    /\ action_created = FALSE
    /\ created = <<>>
    /\ inflight = NoInflight
    /\ path = "init"

LoopSpec == LoopInit /\ [][Next]_vars

\* a line this tool wrote into the log
IsSummary(e) == e.is_dict /\ StartsWith(e.message, <<"Therapydrift:">>)

NotSummary(e) == ~IsSummary(e)

\* a log without the summaries that evaluations wrote into it
WithoutSummaries(lg) == SelectSeq(lg, NotSummary)

LogWithoutSummaries == WithoutSummaries(log)

\* the telemetry the evaluation under way would compute from what it has
\* read, had the summaries not been in the log
TelemetryWithoutSummaries ==
    compute_therapy_drift(SubjectId, spec,
                          [log |-> WithoutSummaries(Running.task.log)],
                          Running.tasks,
                          state[SubjectId].latest_signal_ts).telemetry

\* C23: the summary lines of earlier evaluations are counted neither as drift
\* signals nor as new signals: the counts an evaluation computes are those of
\* the log it read without them, whatever ignore_signal_prefixes the spec
\* sets.
C23_SummaryNeverCounted ==
    [][(Running.pc = "load_state" /\ Running'.pc = "decide") =>
          /\ Running'.report.telemetry.drift_signal_count
                = TelemetryWithoutSummaries.drift_signal_count
          /\ Running'.report.telemetry.new_signal_count
                = TelemetryWithoutSummaries.new_signal_count]_vars

\* the evaluation just made follows a persisted one, and it read the log that
\* one read: nothing but drift signals is ever appended by others, no summary
\* was written, and the number of signals is the stored one
FollowsOverSameLog ==
    /\ Checked
    /\ loaded_state.last_check_ts.kind = "iso"
    /\ LogWithoutSummaries = log
    /\ loaded_state.drift_signal_count = report.telemetry.drift_signal_count

\* C24: an evaluation that follows a persisted one over an unchanged log
\* reports no new signal, also when the signals' timestamps are missing or
\* unparseable; with min_new_signals >= 1 and the follow-up set unchanged it
\* is not allowed.
C24_UnchangedLogNothingNew ==
    FollowsOverSameLog =>
        /\ report.telemetry.new_signal_count = 0
        /\ (spec.min_new_signals >= 1 /\ ~policy.open_followups_changed)
              => ~policy.allow_auto_action

----------------------------------------------------------------------------
(* The stored circuit-breaker flag (Spec) *)

BreakerReached(total) == total >= spec.circuit_breaker_after

\* C25 as stated: the stored flag is true exactly when the stored total has
\* reached circuit_breaker_after.
C25_FlagOfStoredTotal ==
    Stored.circuit_breaker_open = BreakerReached(Stored.auto_action_total)

\* C25: the stored flag is true exactly when the total the writing evaluation
\* loaded, the total before its own action, had reached circuit_breaker_after.
\* A true flag therefore means the stored total has reached the threshold,
\* and the only state with the threshold reached and the flag false is the
\* one written by the evaluation whose action brought the total up to it.
C25_FlagOfLoadedTotal ==
    /\ Checked =>
          Stored.circuit_breaker_open
             = BreakerReached(loaded_state.auto_action_total)
    /\ Stored.circuit_breaker_open => BreakerReached(Stored.auto_action_total)
    /\ (BreakerReached(Stored.auto_action_total)
           /\ ~Stored.circuit_breaker_open)
          => /\ Stored.auto_action_total = spec.circuit_breaker_after
             /\ Stored.auto_action_timestamps # <<>>
             /\ Stored.auto_action_timestamps[
                   Len(Stored.auto_action_timestamps)] = Stored.last_check_ts

\* the evaluation whose action brings the total up to the threshold has
\* written its state
C25_Witness ==
    /\ Checked
    /\ action_created
    /\ loaded_state.auto_action_total = spec.circuit_breaker_after - 1
    /\ Stored.auto_action_total = spec.circuit_breaker_after
    /\ ~Stored.circuit_breaker_open

====
